---- MODULE Spec2Model ----
(***************************************************************************)
(* Model of the scan lifecycle of aidefense.modelscan.ModelScan.scan():    *)
(* register -> upload -> trigger -> poll until an end status, with the     *)
(* except-handler that cancels, waits for CANCELED and deletes.            *)
(* The server and the transport are the environment: every request either  *)
(* returns or raises, and get_scan returns any info the wire can carry.    *)
(***************************************************************************)
EXTENDS Integers, Sequences, FiniteSets, TLC

(* ---------------------------------------------------------------------- *)
(* Program constants                                                      *)
(* ---------------------------------------------------------------------- *)
RETRY_COUNT_FOR_SCANNING == 30

WAIT_TIME_SECS_SUCCESSIVE_SCAN_INFO_CHECK == 2

\* class ScanStatus(str, Enum): the member values
ScanStatus ==
    {"NONE_SCAN_STATUS", "PENDING", "IN_PROGRESS", "COMPLETED", "FAILED", "CANCELED"}

\* variant: FAILED left out of the end statuses
END_SCAN_STATUS_WithoutFailed == <<"COMPLETED", "CANCELED">>

\* END_SCAN_STATUS is a Python list of three members
END_SCAN_STATUS == <<"COMPLETED", "FAILED", "CANCELED">>

(* ---------------------------------------------------------------------- *)
(* Inputs of the environment                                              *)
(* ---------------------------------------------------------------------- *)
\* scan_id values result["scan_id"] can carry; "" is the falsy one that the
\* handler's `if scan_id:` tests for
ScanIds == {"", "s1", "s2"}

\* what the caller hands to scan(file_path):
\*   "file"    a readable regular file
\*   "missing" a path that does not exist      (stat raises)
\*   "dir"     a path that stats but is no file (open raises), e.g. ""
\*   "notpath" a value Path() rejects, e.g. None
FileTargets == {"file", "missing", "dir", "notpath"}

\* what get_scan can return: a dict with a status of the enumeration, a
\* dict whose status is the empty str ("BLANK"), a dict without status
\* ("NOSTATUS"), or a falsy value ("EMPTY")
Infos == ScanStatus \cup {"BLANK", "NOSTATUS", "EMPTY"}

UNBOUND == "UNBOUND"

NoId == "-"

(* ---------------------------------------------------------------------- *)
(* Python values                                                          *)
(* ---------------------------------------------------------------------- *)
\* the characters of a str value
Chars(s) ==
    CASE s = "NONE_SCAN_STATUS" ->
           <<"N","O","N","E","_","S","C","A","N","_","S","T","A","T","U","S">>
      [] s = "PENDING"     -> <<"P","E","N","D","I","N","G">>
      [] s = "IN_PROGRESS" -> <<"I","N","_","P","R","O","G","R","E","S","S">>
      [] s = "COMPLETED"   -> <<"C","O","M","P","L","E","T","E","D">>
      [] s = "FAILED"      -> <<"F","A","I","L","E","D">>
      [] s = "CANCELED"    -> <<"C","A","N","C","E","L","E","D">>
      [] s = "huggingface.co" ->
           <<"h","u","g","g","i","n","g","f","a","c","e",".","c","o">>
      [] s = "https://huggingface.co/org/model" ->
           <<"h","t","t","p","s",":","/","/","h","u","g","g","i","n","g","f","a","c","e",".","c","o","/","o","r","g","/","m","o","d","e","l">>
      [] s = "https://huggingface.com/x" ->
           <<"h","t","t","p","s",":","/","/","h","u","g","g","i","n","g","f","a","c","e",".","c","o","m","/","x">>
      [] s = "https://mirror.example/huggingface.co" ->
           <<"h","t","t","p","s",":","/","/","m","i","r","r","o","r",".","e","x","a","m","p","l","e","/","h","u","g","g","i","n","g","f","a","c","e",".","c","o">>
      [] s = "https://HuggingFace.co/org" ->
           <<"h","t","t","p","s",":","/","/","H","u","g","g","i","n","g","F","a","c","e",".","c","o","/","o","r","g">>
      [] s = "https://hf.co/org/model" ->
           <<"h","t","t","p","s",":","/","/","h","f",".","c","o","/","o","r","g","/","m","o","d","e","l">>
      [] s = "https://github.com/org/model" ->
           <<"h","t","t","p","s",":","/","/","g","i","t","h","u","b",".","c","o","m","/","o","r","g","/","m","o","d","e","l">>
      [] s = "huggingface.c" ->
           <<"h","u","g","g","i","n","g","f","a","c","e",".","c">>
      [] s = "" ->
           <<>>

\* `a in b` for two str values: substring test
StrContains(b, a) ==
    \E i \in 0..(Len(Chars(b)) - Len(Chars(a))) :
        SubSeq(Chars(b), i + 1, i + Len(Chars(a))) = Chars(a)

\* `x in lst` for a list: some element equals x
ListContains(lst, x) == \E i \in 1..Len(lst) : lst[i] = x

\* an exception object: its class, the step that raised it, and the
\* exception that was being handled when it was raised (__context__);
\* __cause__ is set only by `raise ... from`
NoExc == [kind |-> "None", origin |-> "None", context |-> <<>>, cause |-> <<>>]

NewExc(k, o) == [kind |-> k, origin |-> o, context |-> <<>>, cause |-> <<>>]

\* raising x while h is being handled sets x.__context__ to h
RaisedWhileHandling(x, h) ==
    [x EXCEPT !.context = IF h = NoExc THEN <<>> ELSE <<h.kind, h.origin>>]

(* ---------------------------------------------------------------------- *)
(* State                                                                  *)
(* ---------------------------------------------------------------------- *)
VARIABLES
    pc,         \* position of the run inside scan()
    file_path,  \* the argument of scan()
    scan_id,    \* local scan_id of scan()
    status,     \* parameter `status` of the running wait_until_status call
    attempt,    \* iterations of the for loop completed in that call
    info,       \* local info of that call
    e,          \* exception bound by `except Exception as e`
    outcome,    \* how scan() ended: returned info or raised exception
    calls,      \* requests and sleeps issued so far, in order
    observed,   \* summary of the infos get_scan returned, per wait
    repo,            \* the RepoConfig of a repository scan: url and auth
    url_type_out,    \* what evaluating repo.url_type gave
    config_out,      \* what evaluating repo.config gave
    api_key,         \* the key the application passes to an auth class
    runtime_auth,    \* the RuntimeAuth object, once constructed
    management_auth, \* the ManagementAuth object, once constructed
    auth_raised,     \* exception of the last auth call ("None": it returned)
    headers,         \* headers the auth objects attached to a request
    cur,             \* which of two scan() invocations is running
    parked           \* locals of the invocation that is not running

\* the locals of one scan() invocation and what it sent and saw
scanVars == <<pc, file_path, scan_id, status, attempt, info, e, outcome, calls, observed>>

repoVars == <<repo, url_type_out, config_out>>

authVars == <<api_key, runtime_auth, management_auth, auth_raised, headers>>

twoVars == <<cur, parked>>

\* what the statements of scan() never touch
others == <<repoVars, authVars, twoVars>>

vars == <<scanVars, repoVars, authVars, twoVars>>

Pending == [kind |-> "pending", info |-> UNBOUND, exc |-> NoExc]

Returned(i) == [kind |-> "returned", info |-> i, exc |-> NoExc]

Raised(x) == [kind |-> "raised", info |-> UNBOUND, exc |-> x]

\* no RepoConfig is involved
NoRepo == [url |-> "-", auth |-> [class |-> "NoneType", token |-> "None"]]

NotEvaluated == [raised |-> "-", value |-> "-"]

NoPayload == [raised |-> "-", value |-> {}]

NoRepoScan ==
    /\ repo = NoRepo
    /\ url_type_out = NotEvaluated
    /\ config_out = NoPayload

\* no auth object is constructed
NoKey == [type |-> "NoneType", n |-> 0]

NoObject == [class |-> "-", key |-> NoKey]

NoAuthCall ==
    /\ api_key = NoKey
    /\ runtime_auth = NoObject
    /\ management_auth = NoObject
    /\ auth_raised = "None"
    /\ headers = {}

\* a single invocation of scan(): nothing is parked
NoFrame == <<>>

OneInvocation ==
    /\ cur = 1
    /\ parked = NoFrame

Init ==
    /\ pc = "register"
    /\ file_path \in FileTargets
    /\ scan_id = UNBOUND
    /\ status = UNBOUND
    /\ attempt = 0
    /\ info = UNBOUND
    /\ e = NoExc
    /\ outcome = Pending
    /\ calls = <<>>
    /\ observed = [main |-> "in_progress_only", cleanup |-> "in_progress_only"]
    /\ NoRepoScan
    /\ NoAuthCall
    /\ OneInvocation


(* ---------------------------------------------------------------------- *)
(* Helpers of the actions                                                 *)
(* ---------------------------------------------------------------------- *)
\* one entry of the request log: the operation, the scan_id in its URL
\* (NoId when the URL carries none), whether auth=self.auth was passed and
\* the class of the exception the call raised ("None" when it returned)
Call(op, id, auth, raised) == [op |-> op, id |-> id, auth |-> auth, raised |-> raised]

Issue(c) == calls' = Append(calls, c)

\* Python truth value of a scan_id string
Truthy(id) == id # ""

\* info.get("scan_status_info", {}).get("status"): None when absent
StatusOf(i) ==
    IF i = "NOSTATUS" THEN "None"
    ELSE IF i = "BLANK" THEN ""
    ELSE i

\* variant: the main wait compares with the first end status only
Check_FirstEndStatusOnly(i, st) ==
    IF i = "EMPTY" THEN "nomatch"
    ELSE IF st = "END_SCAN_STATUS"
         THEN IF StatusOf(i) = END_SCAN_STATUS[1] THEN "match" ELSE "nomatch"
         ELSE IF StatusOf(i) = "None" THEN "TypeError"
              ELSE IF StrContains("CANCELED", StatusOf(i)) THEN "match" ELSE "nomatch"

\* variant: the cleanup wait accepts every end status, like the main wait
Check_CleanupAnyEndStatus(i, st) ==
    IF i = "EMPTY" THEN "nomatch"
    ELSE IF st = "END_SCAN_STATUS"
         THEN IF ListContains(END_SCAN_STATUS, StatusOf(i)) THEN "match" ELSE "nomatch"
         ELSE IF StatusOf(i) = "None" THEN "TypeError"
              ELSE IF ListContains(END_SCAN_STATUS, StatusOf(i)) THEN "match" ELSE "nomatch"

\* line 464: `info and info.get("scan_status_info", {}).get("status") in status`
\* status is the list END_SCAN_STATUS in the main wait and the str
\* ScanStatus.CANCELED in the cleanup wait, where `in` is the substring
\* test and rejects a None left operand with TypeError
Check(i, st) ==
    IF i = "EMPTY" THEN "nomatch"
    ELSE IF st = "END_SCAN_STATUS"
         THEN IF ListContains(END_SCAN_STATUS, StatusOf(i)) THEN "match" ELSE "nomatch"
         ELSE IF StatusOf(i) = "None" THEN "TypeError"
              ELSE IF StrContains("CANCELED", StatusOf(i)) THEN "match" ELSE "nomatch"

\* summary of the infos seen in one wait: only IN_PROGRESS so far, only
\* non-terminal members of the enumeration so far, or anything else
Summary(o, r) ==
    IF r = "IN_PROGRESS" THEN o
    ELSE IF r \in {"NONE_SCAN_STATUS", "PENDING"}
         THEN (IF o = "in_progress_only" THEN "nonterminal_only" ELSE o)
         ELSE "other"

Observe(o, st, r) ==
    IF st = "END_SCAN_STATUS"
    THEN [o EXCEPT !.main = Summary(o.main, r)]
    ELSE [o EXCEPT !.cleanup = Summary(o.cleanup, r)]

\* variant: the loop runs one iteration too many
LoopRunning_OneMore(n) == n <= RETRY_COUNT_FOR_SCANNING

\* line 462: for _ in range(RETRY_COUNT_FOR_SCANNING), after n iterations
LoopRunning(n) == n < RETRY_COUNT_FOR_SCANNING

\* variant: an exception raised inside the handler loses its context
Raise_WithoutContext(x) ==
    IF e = NoExc
    THEN /\ pc' = "except"
         /\ e' = x
         /\ outcome' = outcome
    ELSE /\ pc' = "done"
         /\ e' = e
         /\ outcome' = Raised(x)

\* an exception propagates out of a statement of scan(): inside the try
\* block it is bound to e by `except Exception as e`; inside the handler it
\* leaves scan() with e as its context
Raise(x) ==
    IF e = NoExc
    THEN /\ pc' = "except"
         /\ e' = x
         /\ outcome' = outcome
    ELSE /\ pc' = "done"
         /\ e' = e
         /\ outcome' = Raised(RaisedWhileHandling(x, e))

\* entry of __get_scan_info_wait_until_status(scan_id, st)
EnterWait(st) ==
    /\ status' = st
    /\ attempt' = 0
    /\ info' = UNBOUND
    /\ pc' = "poll"

(* ---------------------------------------------------------------------- *)
(* scan(), statement by statement                                         *)
(* ---------------------------------------------------------------------- *)
\* variant: a failure of register_scan is swallowed and the run goes on
\* with an empty scan_id
RegisterScan_FailureSwallowed ==
    /\ pc = "register"
    /\ \/ \E id \in ScanIds :
            /\ Issue(Call("register", NoId, TRUE, "None"))
            /\ scan_id' = id
       \/ \E k \in {"ApiError", "KeyError"} :
            /\ Issue(Call("register", NoId, TRUE, k))
            /\ scan_id' = ""
    /\ pc' = "path"
    /\ UNCHANGED <<file_path, status, attempt, info, e, outcome, observed>>
    /\ UNCHANGED others

\* line 527: scan_id = self.register_scan(), outside the try block
RegisterScan ==
    /\ pc = "register"
    /\ \/ \E id \in ScanIds :
            /\ Issue(Call("register", NoId, TRUE, "None"))
            /\ scan_id' = id
            /\ pc' = "path"
            /\ outcome' = outcome
       \/ \E k \in {"ApiError", "KeyError"} :
            /\ Issue(Call("register", NoId, TRUE, k))
            /\ scan_id' = scan_id
            /\ pc' = "done"
            /\ outcome' = Raised(NewExc(k, "register_scan"))
    /\ UNCHANGED <<file_path, status, attempt, info, e, observed>>
    /\ UNCHANGED others

\* line 528: file_path = Path(file_path), still outside the try block
MakePath ==
    /\ pc = "path"
    /\ IF file_path = "notpath"
       THEN /\ pc' = "done"
            /\ outcome' = Raised(NewExc("TypeError", "Path"))
       ELSE /\ pc' = "stat"
            /\ outcome' = outcome
    /\ UNCHANGED <<file_path, scan_id, status, attempt, info, e, calls, observed>>
    /\ UNCHANGED others

\* line 263: file_size = file_path.stat().st_size
UploadStat ==
    /\ pc = "stat"
    /\ IF file_path = "missing"
       THEN Raise(NewExc("FileNotFoundError", "upload_file"))
       ELSE /\ pc' = "create"
            /\ UNCHANGED <<e, outcome>>
    /\ UNCHANGED <<file_path, scan_id, status, attempt, info, calls, observed>>
    /\ UNCHANGED others

\* line 264: _, upload_url = self.create_scan_object(...)
CreateScanObject ==
    /\ pc = "create"
    /\ \/ /\ Issue(Call("create_scan_object", scan_id, TRUE, "None"))
          /\ pc' = "put"
          /\ UNCHANGED <<e, outcome>>
       \/ \E k \in {"ApiError", "KeyError"} :
            /\ Issue(Call("create_scan_object", scan_id, TRUE, k))
            /\ Raise(NewExc(k, "create_scan_object"))
    /\ UNCHANGED <<file_path, scan_id, status, attempt, info, observed>>
    /\ UNCHANGED others

\* variant: a failed PUT does not stop the run
UploadPut_FailureIgnored ==
    /\ pc = "put"
    /\ IF file_path = "dir"
       THEN /\ Raise(NewExc("IsADirectoryError", "upload_file"))
            /\ calls' = calls
       ELSE \/ /\ Issue(Call("upload_put", NoId, FALSE, "None"))
               /\ pc' = "trigger"
               /\ UNCHANGED <<e, outcome>>
            \/ /\ Issue(Call("upload_put", NoId, FALSE, "ApiError"))
               /\ pc' = "trigger"
               /\ UNCHANGED <<e, outcome>>
    /\ UNCHANGED <<file_path, scan_id, status, attempt, info, observed>>
    /\ UNCHANGED others

\* variant: the PUT to the pre-signed URL is sent with auth=self.auth
UploadPut_WithAuth ==
    /\ pc = "put"
    /\ IF file_path = "dir"
       THEN /\ Raise(NewExc("IsADirectoryError", "upload_file"))
            /\ calls' = calls
       ELSE \/ /\ Issue(Call("upload_put", NoId, TRUE, "None"))
               /\ pc' = "trigger"
               /\ UNCHANGED <<e, outcome>>
            \/ /\ Issue(Call("upload_put", NoId, TRUE, "ApiError"))
               /\ Raise(NewExc("ApiError", "upload_file"))
    /\ UNCHANGED <<file_path, scan_id, status, attempt, info, observed>>
    /\ UNCHANGED others

\* lines 266-275: open the file and PUT it to the pre-signed URL, auth=None
UploadPut ==
    /\ pc = "put"
    /\ IF file_path = "dir"
       THEN /\ Raise(NewExc("IsADirectoryError", "upload_file"))
            /\ calls' = calls
       ELSE \/ /\ Issue(Call("upload_put", NoId, FALSE, "None"))
               /\ pc' = "trigger"
               /\ UNCHANGED <<e, outcome>>
            \/ /\ Issue(Call("upload_put", NoId, FALSE, "ApiError"))
               /\ Raise(NewExc("ApiError", "upload_file"))
    /\ UNCHANGED <<file_path, scan_id, status, attempt, info, observed>>
    /\ UNCHANGED others

\* variant: a failed trigger_scan is sent again
TriggerScan_RetryOnFailure ==
    /\ pc = "trigger"
    /\ \/ /\ Issue(Call("trigger", scan_id, TRUE, "None"))
          /\ EnterWait("END_SCAN_STATUS")
       \/ /\ Issue(Call("trigger", scan_id, TRUE, "ApiError"))
          /\ UNCHANGED <<pc, status, attempt, info>>
    /\ UNCHANGED <<file_path, scan_id, e, outcome, observed>>
    /\ UNCHANGED others

\* lines 531-532: self.trigger_scan(scan_id), then enter the main wait
TriggerScan ==
    /\ pc = "trigger"
    /\ \/ /\ Issue(Call("trigger", scan_id, TRUE, "None"))
          /\ EnterWait("END_SCAN_STATUS")
          /\ UNCHANGED <<e, outcome>>
       \/ /\ Issue(Call("trigger", scan_id, TRUE, "ApiError"))
          /\ Raise(NewExc("ApiError", "trigger_scan"))
          /\ UNCHANGED <<status, attempt, info>>
    /\ UNCHANGED <<file_path, scan_id, observed>>
    /\ UNCHANGED others

\* variant: a get_scan that raises counts as an attempt that did not match
Poll_FailureIsAMiss ==
    /\ pc = "poll"
    /\ LoopRunning(attempt)
    /\ \/ /\ Issue(Call("get_scan", scan_id, TRUE, "ApiError"))
          /\ pc' = "sleep"
          /\ UNCHANGED <<info, observed, e, outcome>>
       \/ \E r \in Infos :
            /\ Issue(Call("get_scan", scan_id, TRUE, "None"))
            /\ info' = r
            /\ observed' = Observe(observed, status, r)
            /\ CASE Check(r, status) = "match" ->
                      IF status = "END_SCAN_STATUS"
                      THEN /\ pc' = "done"
                           /\ outcome' = Returned(r)
                           /\ e' = e
                      ELSE /\ pc' = "delete"
                           /\ UNCHANGED <<e, outcome>>
                 [] Check(r, status) = "TypeError" ->
                      Raise(NewExc("TypeError", "wait_until_status"))
                 [] Check(r, status) = "nomatch" ->
                      /\ pc' = "sleep"
                      /\ UNCHANGED <<e, outcome>>
    /\ UNCHANGED <<file_path, scan_id, status, attempt>>
    /\ UNCHANGED others

\* lines 462-465: one iteration of the for loop up to the test of info;
\* a match returns info: to scan() line 540 in the main wait, to line 537
\* in the cleanup wait
Poll ==
    /\ pc = "poll"
    /\ LoopRunning(attempt)
    /\ \/ /\ Issue(Call("get_scan", scan_id, TRUE, "ApiError"))
          /\ Raise(NewExc("ApiError", "get_scan"))
          /\ UNCHANGED <<info, observed>>
       \/ \E r \in Infos :
            /\ Issue(Call("get_scan", scan_id, TRUE, "None"))
            /\ info' = r
            /\ observed' = Observe(observed, status, r)
            /\ CASE Check(r, status) = "match" ->
                      IF status = "END_SCAN_STATUS"
                      THEN /\ pc' = "done"
                           /\ outcome' = Returned(r)
                           /\ e' = e
                      ELSE /\ pc' = "delete"
                           /\ UNCHANGED <<e, outcome>>
                 [] Check(r, status) = "TypeError" ->
                      Raise(NewExc("TypeError", "wait_until_status"))
                 [] Check(r, status) = "nomatch" ->
                      /\ pc' = "sleep"
                      /\ UNCHANGED <<e, outcome>>
    /\ UNCHANGED <<file_path, scan_id, status, attempt>>
    /\ UNCHANGED others

\* variant: the loop sleeps twice between two attempts
Sleep_Twice ==
    /\ pc = "sleep"
    /\ calls' = calls \o <<Call("sleep", NoId, FALSE, "None"),
                           Call("sleep", NoId, FALSE, "None")>>
    /\ attempt' = attempt + 1
    /\ pc' = "poll"
    /\ UNCHANGED <<file_path, scan_id, status, info, e, outcome, observed>>
    /\ UNCHANGED others

\* variant: a while loop whose counter the sleep does not advance
Sleep_AttemptNotCounted ==
    /\ pc = "sleep"
    /\ Issue(Call("sleep", NoId, FALSE, "None"))
    /\ pc' = "poll"
    /\ UNCHANGED <<file_path, scan_id, status, attempt, info, e, outcome, observed>>
    /\ UNCHANGED others

\* line 467: sleep(WAIT_TIME_SECS_SUCCESSIVE_SCAN_INFO_CHECK), next iteration
Sleep ==
    /\ pc = "sleep"
    /\ Issue(Call("sleep", NoId, FALSE, "None"))
    /\ attempt' = attempt + 1
    /\ pc' = "poll"
    /\ UNCHANGED <<file_path, scan_id, status, info, e, outcome, observed>>
    /\ UNCHANGED others

\* variant: the timeout of the main wait is raised past the handler, as if
\* the wait stood after the try statement
TimeOut_OutsideTry ==
    /\ pc = "poll"
    /\ ~LoopRunning(attempt)
    /\ IF status = "END_SCAN_STATUS"
       THEN /\ pc' = "done"
            /\ e' = e
            /\ outcome' = Raised(NewExc("Exception: Scan timed out", "main_wait"))
       ELSE Raise(NewExc("Exception: Scan timed out", "cleanup_wait"))
    /\ UNCHANGED <<file_path, scan_id, status, attempt, info, calls, observed>>
    /\ UNCHANGED others

\* variant: when the main wait runs out the last info is returned
TimeOut_ReturnsLastInfo ==
    /\ pc = "poll"
    /\ ~LoopRunning(attempt)
    /\ IF status = "END_SCAN_STATUS"
       THEN /\ pc' = "done"
            /\ e' = e
            /\ outcome' = Returned(info)
       ELSE Raise(NewExc("Exception: Scan timed out", "cleanup_wait"))
    /\ UNCHANGED <<file_path, scan_id, status, attempt, info, calls, observed>>
    /\ UNCHANGED others

\* line 469: the loop ran out, raise Exception("Scan timed out")
TimeOut ==
    /\ pc = "poll"
    /\ ~LoopRunning(attempt)
    /\ Raise(NewExc("Exception: Scan timed out",
                    IF status = "END_SCAN_STATUS" THEN "main_wait" ELSE "cleanup_wait"))
    /\ UNCHANGED <<file_path, scan_id, status, attempt, info, calls, observed>>
    /\ UNCHANGED others

\* variant: the handler re-raises without any cleanup
Except_WithoutCleanup ==
    /\ pc = "except"
    /\ pc' = "reraise"
    /\ UNCHANGED <<file_path, scan_id, status, attempt, info, e, outcome, calls, observed>>
    /\ UNCHANGED others

\* lines 533-534: except Exception as e: if scan_id:
Except ==
    /\ pc = "except"
    /\ \/ /\ Truthy(scan_id)
          /\ pc' = "cancel"
       \/ /\ ~Truthy(scan_id)
          /\ pc' = "reraise"
    /\ UNCHANGED <<file_path, scan_id, status, attempt, info, e, outcome, calls, observed>>
    /\ UNCHANGED others

\* lines 535-536: self.cancel_scan(scan_id), then enter the cleanup wait
CancelScan ==
    /\ pc = "cancel"
    /\ \/ /\ Issue(Call("cancel", scan_id, TRUE, "None"))
          /\ EnterWait("ScanStatus.CANCELED")
          /\ UNCHANGED <<e, outcome>>
       \/ /\ Issue(Call("cancel", scan_id, TRUE, "ApiError"))
          /\ Raise(NewExc("ApiError", "cancel_scan"))
          /\ UNCHANGED <<status, attempt, info>>
    /\ UNCHANGED <<file_path, scan_id, observed>>
    /\ UNCHANGED others

\* variant: the handler leaves the scan on the server
DeleteScan_Skipped ==
    /\ pc = "delete"
    /\ pc' = "reraise"
    /\ UNCHANGED <<file_path, scan_id, status, attempt, info, e, outcome, calls, observed>>
    /\ UNCHANGED others

\* line 537: self.delete_scan(scan_id)
DeleteScan ==
    /\ pc = "delete"
    /\ \/ /\ Issue(Call("delete", scan_id, TRUE, "None"))
          /\ pc' = "reraise"
          /\ UNCHANGED <<e, outcome>>
       \/ /\ Issue(Call("delete", scan_id, TRUE, "ApiError"))
          /\ Raise(NewExc("ApiError", "delete_scan"))
    /\ UNCHANGED <<file_path, scan_id, status, attempt, info, observed>>
    /\ UNCHANGED others

\* variant: the handler raises a new exception made from e
Reraise_Wrapped ==
    /\ pc = "reraise"
    /\ pc' = "done"
    /\ outcome' = Raised(RaisedWhileHandling(NewExc("Exception", "scan"), e))
    /\ UNCHANGED <<file_path, scan_id, status, attempt, info, e, calls, observed>>
    /\ UNCHANGED others

\* line 538: raise e
Reraise ==
    /\ pc = "reraise"
    /\ pc' = "done"
    /\ outcome' = Raised(e)
    /\ UNCHANGED <<file_path, scan_id, status, attempt, info, e, calls, observed>>
    /\ UNCHANGED others

Next ==
    \/ RegisterScan
    \/ MakePath
    \/ UploadStat
    \/ CreateScanObject
    \/ UploadPut
    \/ TriggerScan
    \/ Poll
    \/ Sleep
    \/ TimeOut
    \/ Except
    \/ CancelScan
    \/ DeleteScan
    \/ Reraise

Spec == Init /\ [][Next]_vars

\* scan() runs on: every request returns or raises and every sleep ends,
\* so a statement that can be executed eventually is
SpecLive == Init /\ [][Next]_vars /\ WF_vars(Next)

(* ---------------------------------------------------------------------- *)
(* RepoConfig: modelscan/config.py                                        *)
(* ---------------------------------------------------------------------- *)
\* UrlType, the enumeration of repository types
UrlType == {"HUGGING_FACE"}

\* the dict of lines 66-68, as a function on UrlType
URL_TYPE_TO_CONFIG_NAME == [t \in UrlType |-> "huggingface"]

\* repository URLs the application passes: with the marker as host, as a
\* prefix of another host, inside the path, in another case, and without it
Urls ==
    {"huggingface.co", "https://huggingface.co/org/model",
     "https://huggingface.com/x", "https://mirror.example/huggingface.co",
     "https://HuggingFace.co/org", "https://hf.co/org/model",
     "https://github.com/org/model", "huggingface.c", ""}

\* access tokens given to HuggingfaceRepoAuth
Tokens == {"", "hf_t1", "hf_t2"}

\* auth of a RepoConfig: None or a HuggingfaceRepoAuth(token)
NoAuth == [class |-> "NoneType", token |-> "None"]

Auths == {NoAuth} \cup [class : {"HuggingfaceRepoAuth"}, token : Tokens]

Repos == [url : Urls, auth : Auths]

\* HuggingfaceRepoAuth.to_dict, lines 134-149: a dict as its set of items
to_dict(a) == {<<"access_token", a.token>>}

\* variant: the marker has to be the beginning of the URL
url_type_StartsWith(r) ==
    IF /\ Len(Chars(r.url)) >= Len(Chars("huggingface.co"))
       /\ SubSeq(Chars(r.url), 1, Len(Chars("huggingface.co")))
              = Chars("huggingface.co")
    THEN [raised |-> "None", value |-> "HUGGING_FACE"]
    ELSE [raised |-> "ValueError", value |-> "-"]

\* RepoConfig.url_type, lines 195-215
url_type(r) ==
    IF StrContains(r.url, "huggingface.co")
    THEN [raised |-> "None", value |-> "HUGGING_FACE"]
    ELSE [raised |-> "ValueError", value |-> "-"]

\* variant: a URL of no known type gives the empty map instead of the error
config_UnknownTypeEmpty(r) ==
    IF r.auth.class = "NoneType"
    THEN [raised |-> "None", value |-> {}]
    ELSE IF url_type(r).raised # "None"
    THEN [raised |-> "None", value |-> {}]
    ELSE [raised |-> "None",
          value |-> {<<URL_TYPE_TO_CONFIG_NAME[url_type(r).value], to_dict(r.auth)>>}]

\* variant: the type of the URL is resolved before auth is looked at
config_TypeFirst(r) ==
    IF url_type(r).raised # "None"
    THEN [raised |-> url_type(r).raised, value |-> {}]
    ELSE IF r.auth.class = "NoneType"
    THEN [raised |-> "None", value |-> {}]
    ELSE [raised |-> "None",
          value |-> {<<URL_TYPE_TO_CONFIG_NAME[url_type(r).value], to_dict(r.auth)>>}]

\* RepoConfig.config, lines 217-251: `if not self.auth: return {}` (an
\* auth object is always true), then the key of the dict display is
\* evaluated first and url_type may raise
config(r) ==
    IF r.auth.class = "NoneType"
    THEN [raised |-> "None", value |-> {}]
    ELSE IF url_type(r).raised # "None"
    THEN [raised |-> url_type(r).raised, value |-> {}]
    ELSE [raised |-> "None",
          value |-> {<<URL_TYPE_TO_CONFIG_NAME[url_type(r).value], to_dict(r.auth)>>}]

\* the application reads repo.url_type
EvalUrlType ==
    /\ pc = "idle"
    /\ repo # NoRepo
    /\ url_type_out' = url_type(repo)
    /\ UNCHANGED <<scanVars, authVars, twoVars, repo, config_out>>

\* the application reads repo.config
EvalConfig ==
    /\ pc = "idle"
    /\ repo # NoRepo
    /\ config_out' = config(repo)
    /\ UNCHANGED <<scanVars, authVars, twoVars, repo, url_type_out>>

(* ---------------------------------------------------------------------- *)
(* The repository scan                                                    *)
(* ---------------------------------------------------------------------- *)
\* The orchestrator of a repository scan is not part of the sources at
\* hand; its one step of its own is taken from the specification (4.2,
\* step 3): after register, inside the cleanup region and in place of
\* upload_file, validate_url(scan_id, url, url_type, auth.config); every
\* other step is the statement of scan() above. pc = "path" is the
\* position right after register_scan returned.

\* repo.url_type and repo.config are evaluated for the arguments, then
\* validate_scan_url (model_scan_base.py, lines 468-474) posts to
\* /scans/{scan_id}/validate_url with auth=self.auth
ValidateUrl ==
    /\ pc = "path"
    /\ repo # NoRepo
    /\ IF url_type(repo).raised # "None"
       THEN /\ Raise(NewExc(url_type(repo).raised, "url_type"))
            /\ calls' = calls
       ELSE IF config(repo).raised # "None"
       THEN /\ Raise(NewExc(config(repo).raised, "config"))
            /\ calls' = calls
       ELSE \/ /\ Issue(Call("validate_url", scan_id, TRUE, "None"))
               /\ pc' = "trigger"
               /\ UNCHANGED <<e, outcome>>
            \/ /\ Issue(Call("validate_url", scan_id, TRUE, "ApiError"))
               /\ Raise(NewExc("ApiError", "validate_scan_url"))
    /\ UNCHANGED <<file_path, scan_id, status, attempt, info, observed>>
    /\ UNCHANGED others

\* the repositories scanned: a public and a private HuggingFace
\* repository and one of an unknown host
RepoTargets ==
    {[url |-> "https://huggingface.co/org/model", auth |-> NoAuth],
     [url |-> "https://huggingface.co/org/model",
      auth |-> [class |-> "HuggingfaceRepoAuth", token |-> "hf_t1"]],
     [url |-> "https://github.com/org/model", auth |-> NoAuth]}

InitRepo ==
    /\ pc = "register"
    /\ file_path = "-"
    /\ scan_id = UNBOUND
    /\ status = UNBOUND
    /\ attempt = 0
    /\ info = UNBOUND
    /\ e = NoExc
    /\ outcome = Pending
    /\ calls = <<>>
    /\ observed = [main |-> "in_progress_only", cleanup |-> "in_progress_only"]
    /\ repo \in RepoTargets
    /\ url_type_out = NotEvaluated
    /\ config_out = NoPayload
    /\ NoAuthCall
    /\ OneInvocation

NextRepo ==
    \/ RegisterScan
    \/ ValidateUrl
    \/ TriggerScan
    \/ Poll
    \/ Sleep
    \/ TimeOut
    \/ Except
    \/ CancelScan
    \/ DeleteScan
    \/ Reraise

SpecRepo == InitRepo /\ [][NextRepo]_vars

(* ---------------------------------------------------------------------- *)
(* Two invocations of scan() on one client                                *)
(* ---------------------------------------------------------------------- *)
\* scan() keeps everything it computes in locals and assigns no attribute
\* of self (the client's attributes are set in __init__, lines 91-94), so
\* an invocation is its frame. The variables pc .. observed are the frame
\* of the invocation that is running, parked is the frame of the other.
Frame ==
    [pc |-> pc, file_path |-> file_path, scan_id |-> scan_id,
     status |-> status, attempt |-> attempt, info |-> info, e |-> e,
     outcome |-> outcome, calls |-> calls, observed |-> observed]

\* a frame at the entry of scan(path)
NewFrame(path) ==
    [pc |-> "register", file_path |-> path, scan_id |-> UNBOUND,
     status |-> UNBOUND, attempt |-> 0, info |-> UNBOUND, e |-> NoExc,
     outcome |-> Pending, calls |-> <<>>,
     observed |-> [main |-> "in_progress_only", cleanup |-> "in_progress_only"]]

\* variant: scan_id is kept on the client, one value for both invocations
Switch_SharedScanId ==
    /\ parked # NoFrame
    /\ parked.pc # "done"
    /\ parked' = Frame
    /\ cur' = 3 - cur
    /\ pc' = parked.pc
    /\ file_path' = parked.file_path
    /\ scan_id' = scan_id
    /\ status' = parked.status
    /\ attempt' = parked.attempt
    /\ info' = parked.info
    /\ e' = parked.e
    /\ outcome' = parked.outcome
    /\ calls' = parked.calls
    /\ observed' = parked.observed
    /\ UNCHANGED <<repoVars, authVars>>

\* the scheduler suspends the running invocation and resumes the other
Switch ==
    /\ parked # NoFrame
    /\ parked.pc # "done"
    /\ parked' = Frame
    /\ cur' = 3 - cur
    /\ pc' = parked.pc
    /\ file_path' = parked.file_path
    /\ scan_id' = parked.scan_id
    /\ status' = parked.status
    /\ attempt' = parked.attempt
    /\ info' = parked.info
    /\ e' = parked.e
    /\ outcome' = parked.outcome
    /\ calls' = parked.calls
    /\ observed' = parked.observed
    /\ UNCHANGED <<repoVars, authVars>>

\* the server of the two invocations: it issues a non-empty scan_id that
\* the other invocation does not hold, it answers every request but a
\* trigger of invocation 1, which it may reject, and a scan is IN_PROGRESS
\* until it is CANCELED (invocation 1) or COMPLETED (invocation 2)
Served ==
    /\ scan_id' # UNBOUND => scan_id' \notin {"", parked.scan_id}
    /\ info' \in {UNBOUND, "IN_PROGRESS"}
                    \cup (IF cur = 1 THEN {"CANCELED"} ELSE {"COMPLETED"})
    /\ Len(calls') > Len(calls) =>
           \/ calls'[Len(calls')].raised = "None"
           \/ cur = 1 /\ calls'[Len(calls')].op = "trigger"

\* the requests of scan() against that server
RegisterScanServed == RegisterScan /\ Served

CreateScanObjectServed == CreateScanObject /\ Served

UploadPutServed == UploadPut /\ Served

TriggerScanServed == TriggerScan /\ Served

PollServed == Poll /\ Served

CancelScanServed == CancelScan /\ Served

DeleteScanServed == DeleteScan /\ Served

\* two invocations of scan() of an existing file, the first one running
InitTwo ==
    /\ pc = "register"
    /\ file_path = "file"
    /\ scan_id = UNBOUND
    /\ status = UNBOUND
    /\ attempt = 0
    /\ info = UNBOUND
    /\ e = NoExc
    /\ outcome = Pending
    /\ calls = <<>>
    /\ observed = [main |-> "in_progress_only", cleanup |-> "in_progress_only"]
    /\ cur = 1
    /\ parked = NewFrame("file")
    /\ NoRepoScan
    /\ NoAuthCall

NextTwo ==
    \/ RegisterScanServed
    \/ MakePath
    \/ UploadStat
    \/ CreateScanObjectServed
    \/ UploadPutServed
    \/ TriggerScanServed
    \/ PollServed
    \/ Sleep
    \/ TimeOut
    \/ Except
    \/ CancelScanServed
    \/ DeleteScanServed
    \/ Reraise
    \/ Switch

SpecTwo == InitTwo /\ [][NextTwo]_vars

(* ---------------------------------------------------------------------- *)
(* The auth classes: runtime/auth.py and management/auth.py               *)
(* ---------------------------------------------------------------------- *)
\* longest str key the application tries
MaxKeyLen == 66

\* length a key must have (auth.py line 19)
KeyLength == 64

\* a key value: its Python type and n, the length of a str or bytes value
\* and the value of an int
Keys ==
    [type : {"str"}, n : 0..MaxKeyLen]
        \cup {NoKey}
        \cup [type : {"int", "bytes"}, n : {0, KeyLength}]

\* `not token`: None, 0 and the empty str or bytes are false
Falsy(k) == k.type = "NoneType" \/ k.n = 0

\* validate(), lines 17-21 of runtime/auth.py: the three tests of line 19
\* are evaluated left to right, so len() is never applied to an int
validate(token) ==
    IF Falsy(token) THEN "ValueError"
    ELSE IF token.type # "str" THEN "ValueError"
    ELSE IF token.n # KeyLength THEN "ValueError"
    ELSE "True"

\* nothing but the auth variables changes
AuthOnly == UNCHANGED <<scanVars, repoVars, twoVars, api_key>>

\* RuntimeAuth(api_key): lines 9-11, self.token = token; self.validate()
RuntimeAuthInit ==
    /\ pc = "idle"
    /\ IF validate(api_key) = "True"
       THEN /\ runtime_auth' = [class |-> "RuntimeAuth", key |-> api_key]
            /\ auth_raised' = "None"
       ELSE /\ runtime_auth' = runtime_auth
            /\ auth_raised' = "ValueError"
    /\ UNCHANGED <<management_auth, headers>>
    /\ AuthOnly

\* RuntimeAuth.__call__, lines 13-15
RuntimeAuthCall ==
    /\ pc = "idle"
    /\ runtime_auth # NoObject
    /\ headers' = headers \cup {<<"X-Cisco-AI-Defense-API-Key", runtime_auth.key>>}
    /\ auth_raised' = "None"
    /\ UNCHANGED <<runtime_auth, management_auth>>
    /\ AuthOnly

\* ManagementAuth(api_key): lines 15-22, self.api_key = api_key and
\* nothing else
ManagementAuthInit ==
    /\ pc = "idle"
    /\ management_auth' = [class |-> "ManagementAuth", key |-> api_key]
    /\ auth_raised' = "None"
    /\ UNCHANGED <<runtime_auth, headers>>
    /\ AuthOnly

\* ManagementAuth.__call__, lines 24-35
ManagementAuthCall ==
    /\ pc = "idle"
    /\ management_auth # NoObject
    /\ headers' = headers \cup
           {<<"X-Cisco-AI-Defense-Tenant-API-Key", management_auth.key>>}
    /\ auth_raised' = "None"
    /\ UNCHANGED <<runtime_auth, management_auth>>
    /\ AuthOnly

\* ManagementAuth.validate, lines 37-41: reads self.token, an attribute
\* __init__ never sets
ManagementAuthValidate ==
    /\ pc = "idle"
    /\ management_auth # NoObject
    /\ auth_raised' = "AttributeError"
    /\ UNCHANGED <<runtime_auth, management_auth, headers>>
    /\ AuthOnly

\* no scan() is running
NoScan ==
    /\ pc = "idle"
    /\ file_path = "-"
    /\ scan_id = UNBOUND
    /\ status = UNBOUND
    /\ attempt = 0
    /\ info = UNBOUND
    /\ e = NoExc
    /\ outcome = Pending
    /\ calls = <<>>
    /\ observed = [main |-> "in_progress_only", cleanup |-> "in_progress_only"]

InitAuth ==
    /\ NoScan
    /\ NoRepoScan
    /\ OneInvocation
    /\ api_key \in Keys
    /\ runtime_auth = NoObject
    /\ management_auth = NoObject
    /\ auth_raised = "None"
    /\ headers = {}

NextAuth ==
    \/ RuntimeAuthInit
    \/ RuntimeAuthCall
    \/ ManagementAuthInit
    \/ ManagementAuthCall
    \/ ManagementAuthValidate

SpecAuth == InitAuth /\ [][NextAuth]_vars

\* a RepoConfig as the application constructed it, nothing evaluated yet
InitConfig ==
    /\ NoScan
    /\ NoAuthCall
    /\ OneInvocation
    /\ repo \in Repos
    /\ url_type_out = NotEvaluated
    /\ config_out = NoPayload

NextConfig ==
    \/ EvalUrlType
    \/ EvalConfig

SpecConfig == InitConfig /\ [][NextConfig]_vars

(* ---------------------------------------------------------------------- *)
(* Reading the log                                                        *)
(* ---------------------------------------------------------------------- *)
\* positions of the calls of an operation
Positions(op) == {i \in 1..Len(calls) : calls[i].op = op}

Count(op) == Cardinality(Positions(op))

TypeOK ==
    /\ pc \in {"register", "path", "stat", "create", "put", "trigger", "poll",
               "sleep", "except", "cancel", "delete", "reraise", "done"}
    /\ file_path \in FileTargets
    /\ scan_id \in ScanIds \cup {UNBOUND}
    /\ status \in {UNBOUND, "END_SCAN_STATUS", "ScanStatus.CANCELED"}
    /\ attempt \in 0..RETRY_COUNT_FOR_SCANNING
    /\ info \in Infos \cup {UNBOUND}
    /\ outcome.kind \in {"pending", "returned", "raised"}
    /\ (pc = "done") = (outcome.kind # "pending")


\* some call of the operation returned normally / raised
Ok(op) == \E i \in Positions(op) : calls[i].raised = "None"

Failed(op) == \E i \in Positions(op) : calls[i].raised # "None"

NoRequestFailed == \A i \in 1..Len(calls) : calls[i].raised = "None"

\* cancel_scan(id) was called and delete_scan(id) was called after it
CancelThenDelete(id) ==
    \E i, j \in 1..Len(calls) :
        /\ i < j
        /\ calls[i].op = "cancel" /\ calls[i].id = id
        /\ calls[j].op = "delete" /\ calls[j].id = id

\* the terminal statuses as the specification lists them
Terminal == {"COMPLETED", "FAILED", "CANCELED"}

TriggerError == NewExc("ApiError", "trigger_scan")

MainTimeout == NewExc("Exception: Scan timed out", "main_wait")

TimeoutKind == "Exception: Scan timed out"

(* ---------------------------------------------------------------------- *)
(* C1                                                                     *)
(* ---------------------------------------------------------------------- *)
\* C1 as stated: when trigger_scan raised (after register_scan and
\* upload_file succeeded) and that error reaches the caller, cancel_scan and
\* then delete_scan were called, in that order, on the scan_id that
\* register_scan returned.
C1_CleanupBeforeTriggerError ==
    (pc = "done" /\ outcome = Raised(TriggerError)) => CancelThenDelete(scan_id)

\* C1 amended: the same for a non-empty scan_id; with an empty scan_id the
\* handler skips the cleanup and the trigger error is raised with no
\* cancel_scan and no delete_scan.
C1_CleanupBeforeTriggerError_NonEmptyId ==
    (pc = "done" /\ outcome = Raised(TriggerError)) =>
        /\ Ok("register") /\ Ok("upload_put") /\ Failed("trigger")
        /\ IF Truthy(scan_id)
           THEN /\ CancelThenDelete(scan_id)
                /\ Count("cancel") = 1 /\ Count("delete") = 1
           ELSE Count("cancel") = 0 /\ Count("delete") = 0

C1_Witness ==
    /\ pc = "done" /\ outcome = Raised(TriggerError)
    /\ Truthy(scan_id) /\ CancelThenDelete(scan_id)

(* ---------------------------------------------------------------------- *)
(* C2                                                                     *)
(* ---------------------------------------------------------------------- *)
\* the server never reports a terminal status: the run reached the waits
\* with a real file, no request failed, and every get_scan returned a
\* non-terminal member of the enumeration
NeverTerminal ==
    /\ file_path = "file"
    /\ NoRequestFailed
    /\ observed.main # "other" /\ observed.cleanup # "other"

\* C2 as stated: if the server never reports a terminal status and no
\* request fails, scan() raises the timeout error after exactly
\* RETRY_COUNT_FOR_SCANNING get_scan calls in total.
C2_TimeoutAfterRetryCountPolls ==
    (pc = "done" /\ NeverTerminal) =>
        /\ outcome.kind = "raised" /\ outcome.exc.kind = TimeoutKind
        /\ Count("get_scan") = RETRY_COUNT_FOR_SCANNING

\* C2 amended: the main wait times out after exactly RETRY_COUNT_FOR_SCANNING
\* get_scan calls, the handler then cancels and the cleanup wait polls
\* RETRY_COUNT_FOR_SCANNING more times, so scan() raises a timeout error
\* after exactly 2 * RETRY_COUNT_FOR_SCANNING get_scan calls in total; only
\* with an empty scan_id (cleanup skipped) the total is RETRY_COUNT_FOR_SCANNING.
C2_TimeoutAfterTwiceRetryCountPolls ==
    (pc = "done" /\ NeverTerminal) =>
        /\ outcome.kind = "raised" /\ outcome.exc.kind = TimeoutKind
        /\ e = MainTimeout
        /\ Count("get_scan") = IF Truthy(scan_id)
                               THEN 2 * RETRY_COUNT_FOR_SCANNING
                               ELSE RETRY_COUNT_FOR_SCANNING

C2_Witness ==
    /\ pc = "done" /\ NeverTerminal /\ Truthy(scan_id)
    /\ Count("get_scan") = 2 * RETRY_COUNT_FOR_SCANNING
    /\ outcome.exc.kind = TimeoutKind

(* ---------------------------------------------------------------------- *)
(* C3                                                                     *)
(* ---------------------------------------------------------------------- *)
\* get_scan calls of the main wait that returned an info
MainPollsReturned ==
    Cardinality({i \in Positions("get_scan") :
                    /\ calls[i].raised = "None"
                    /\ ~ \E c \in Positions("cancel") : c < i})

\* register, upload and trigger succeeded and every poll of the main wait
\* returned IN_PROGRESS until the wait timed out
MainWaitAllInProgress ==
    /\ Ok("register") /\ Ok("upload_put") /\ Ok("trigger")
    /\ MainPollsReturned = RETRY_COUNT_FOR_SCANNING
    /\ observed.main = "in_progress_only"

\* C3 as stated: in that case scan() raises the timeout error and attempts no
\* cleanup: neither cancel_scan nor delete_scan is called in the run.
C3_NoCleanupOnMainTimeout ==
    (pc = "done" /\ MainWaitAllInProgress) =>
        /\ outcome = Raised(MainTimeout)
        /\ Count("cancel") = 0 /\ Count("delete") = 0

\* C3 amended: in that case the timeout is raised inside the try block, so
\* scan() does attempt cleanup: with a non-empty scan_id cancel_scan(scan_id)
\* is called once after the last main poll, and the main-wait timeout error
\* reaches the caller only after cancel_scan and then delete_scan were
\* called on scan_id; only with an empty scan_id is there no cleanup.
C3_CleanupOnMainTimeout ==
    (pc = "done" /\ MainWaitAllInProgress) =>
        /\ outcome.kind = "raised"
        /\ IF Truthy(scan_id)
           THEN /\ Count("cancel") = 1
                /\ \A i \in Positions("cancel") :
                      /\ calls[i].id = scan_id
                      /\ Cardinality({j \in Positions("get_scan") : j < i})
                            = RETRY_COUNT_FOR_SCANNING
                /\ (outcome = Raised(MainTimeout)) => CancelThenDelete(scan_id)
           ELSE /\ Count("cancel") = 0 /\ Count("delete") = 0
                /\ outcome = Raised(MainTimeout)

C3_Witness ==
    /\ pc = "done" /\ MainWaitAllInProgress
    /\ outcome = Raised(MainTimeout)
    /\ CancelThenDelete(scan_id)


(* ---------------------------------------------------------------------- *)
(* C4                                                                     *)
(* ---------------------------------------------------------------------- *)
\* the statuses a wait is waiting for, as the specification names them
Awaited == IF status = "END_SCAN_STATUS" THEN Terminal ELSE {"CANCELED"}

\* position of cancel_scan in the log, past its end when there is none
CancelAt ==
    IF Positions("cancel") = {} THEN Len(calls) + 1
    ELSE CHOOSE c \in Positions("cancel") : TRUE

\* get_scan calls of the wait that is running or ran last: those after
\* cancel_scan in the cleanup wait, all of them in the main wait
LoopGets ==
    IF status = "ScanStatus.CANCELED"
    THEN Cardinality({i \in (CancelAt + 1)..Len(calls) : calls[i].op = "get_scan"})
    ELSE Count("get_scan")

LastCallIsGet == Len(calls) > 0 /\ calls[Len(calls)].op = "get_scan"

\* C4: a wait stops at the first get_scan whose status is awaited. While a
\* wait is still looping no poll so far returned an awaited status and the
\* polls made equal the iterations begun (never more than RETRY_COUNT); when
\* the k-th poll is the first to return an awaited status the wait returns
\* with exactly k get_scan calls made, that poll being the last call issued.
C4_StopsAtFirstAwaitedStatus ==
    /\ pc \in {"poll", "sleep"} =>
          /\ info \notin Awaited
          /\ LoopGets = attempt + (IF pc = "sleep" THEN 1 ELSE 0)
          /\ attempt + (IF pc = "sleep" THEN 1 ELSE 0) <= RETRY_COUNT_FOR_SCANNING
    /\ info \in Awaited =>
          /\ pc \in {"done", "delete", "reraise"}
          /\ LoopGets = attempt + 1
          /\ attempt + 1 <= RETRY_COUNT_FOR_SCANNING
          /\ Count("delete") = 0 => LastCallIsGet
    /\ outcome.kind = "returned" =>
          /\ outcome.info \in Terminal
          /\ Count("get_scan") = attempt + 1
          /\ LastCallIsGet

\* the last of the RETRY_COUNT polls is the first to return a terminal status
C4_Witness ==
    /\ outcome.kind = "returned"
    /\ Count("get_scan") = RETRY_COUNT_FOR_SCANNING
    /\ outcome.info = "CANCELED"


(* ---------------------------------------------------------------------- *)
(* C5                                                                     *)
(* ---------------------------------------------------------------------- *)
\* C5: whenever a poll of the main wait observes a terminal status, FAILED
\* and CANCELED included, scan() returns the info of that poll as a normal
\* value: nothing is raised, and no cancel_scan, delete_scan, trigger_scan
\* or upload is issued after that poll.
C5_TerminalStatusIsReturned ==
    (status = "END_SCAN_STATUS" /\ info \in Terminal) =>
        /\ pc = "done"
        /\ outcome = Returned(info)
        /\ e = NoExc
        /\ Count("cancel") = 0 /\ Count("delete") = 0
        /\ Count("trigger") = 1 /\ Count("upload_put") = 1
        /\ Count("create_scan_object") = 1
        /\ LastCallIsGet

\* a scan that the server reports FAILED at the third poll
C5_Witness ==
    /\ outcome = Returned("FAILED")
    /\ Count("get_scan") = 3

(* ---------------------------------------------------------------------- *)
(* C6                                                                     *)
(* ---------------------------------------------------------------------- *)
\* C6: if register_scan fails, scan() propagates that failure at once and
\* issues no other request: the failed register is the only call of the run.
C6_RegisterFailurePropagates ==
    Failed("register") =>
        /\ pc = "done"
        /\ outcome.kind = "raised"
        /\ outcome.exc.origin = "register_scan"
        /\ outcome.exc.context = <<>>
        /\ \A i \in Positions("register") : outcome.exc.kind = calls[i].raised
        /\ Len(calls) = 1

C6_Witness ==
    /\ pc = "done"
    /\ outcome = Raised(NewExc("ApiError", "register_scan"))
    /\ Len(calls) = 1

(* ---------------------------------------------------------------------- *)
(* C7                                                                     *)
(* ---------------------------------------------------------------------- *)
\* C7: whenever scan() raises after register_scan has succeeded (and
\* returned a non-empty scan_id), delete_scan has been called on that
\* scan_id before the exception reaches the caller.
C7_DeleteBeforeAnyRaise ==
    (pc = "done" /\ outcome.kind = "raised" /\ Ok("register") /\ Truthy(scan_id)) =>
        \E i \in Positions("delete") : calls[i].id = scan_id

(* ---------------------------------------------------------------------- *)
(* C8                                                                     *)
(* ---------------------------------------------------------------------- *)
\* C8: if cancel_scan or delete_scan fails during cleanup, the exception
\* scan() surfaces is still the primary exception, the one raised by the
\* step that started the cleanup.
C8_PrimarySurvivesCleanupFailure ==
    (pc = "done" /\ (Failed("cancel") \/ Failed("delete"))) =>
        outcome = Raised(e)

(* ---------------------------------------------------------------------- *)
(* C9                                                                     *)
(* ---------------------------------------------------------------------- *)
\* the exception of the step of the try block that raised, read from the
\* log and the target: the failed request if there is one, else the file
\* system error of upload_file, else the timeout of the main wait
FailedRequests ==
    {i \in 1..Len(calls) :
        /\ calls[i].raised # "None"
        /\ calls[i].op \in {"create_scan_object", "upload_put", "trigger", "get_scan"}
        /\ ~ \E c \in Positions("cancel") : c < i}

OriginOf(op) ==
    CASE op = "create_scan_object" -> "create_scan_object"
      [] op = "upload_put"         -> "upload_file"
      [] op = "trigger"            -> "trigger_scan"
      [] op = "get_scan"           -> "get_scan"

PrimaryFailure ==
    IF FailedRequests # {}
    THEN LET i == CHOOSE j \in FailedRequests : TRUE
         IN  NewExc(calls[i].raised, OriginOf(calls[i].op))
    ELSE IF file_path = "missing" THEN NewExc("FileNotFoundError", "upload_file")
    ELSE IF file_path = "dir" THEN NewExc("IsADirectoryError", "upload_file")
    ELSE MainTimeout

\* C9: for every step after registration that raises, if the cleanup's
\* cancel_scan, cleanup wait and delete_scan all succeed, the exception
\* scan() raises is the very exception the failing step raised: same class,
\* same origin, nothing chained onto it.
C9_OriginalErrorUnchanged ==
    (pc = "done" /\ Ok("cancel") /\ Ok("delete")) =>
        /\ outcome = Raised(PrimaryFailure)
        /\ Cardinality(FailedRequests) <= 1

\* a get_scan of the main wait raised and the cleanup went through
C9_Witness ==
    /\ pc = "done" /\ Ok("cancel") /\ Ok("delete")
    /\ outcome = Raised(NewExc("ApiError", "get_scan"))

(* ---------------------------------------------------------------------- *)
(* C10                                                                    *)
(* ---------------------------------------------------------------------- *)
\* the cleanup wait used up its RETRY_COUNT polls without seeing CANCELED
CleanupWaitExhausted ==
    /\ status = "ScanStatus.CANCELED"
    /\ attempt = RETRY_COUNT_FOR_SCANNING
    /\ LoopGets = RETRY_COUNT_FOR_SCANNING

C11_NoRequestIsResent ==
    \A op \in {"register", "create_scan_object", "upload_put", "trigger",
               "cancel", "delete"} : Count(op) <= 1

\* a run in which get_scan was repeated in both waits and every other
\* request went out exactly once
C11_Witness ==
    /\ pc = "done"
    /\ \A op \in {"register", "create_scan_object", "upload_put", "trigger",
                  "cancel", "delete"} : Count(op) = 1
    /\ Count("get_scan") > 2
    /\ LoopGets > 1

(* ---------------------------------------------------------------------- *)
(* C12                                                                    *)
(* ---------------------------------------------------------------------- *)
\* C12: every value scan() returns is an info whose status is COMPLETED,
\* FAILED or CANCELED, never one with NONE_SCAN_STATUS, PENDING, IN_PROGRESS
\* or no status; a run that ends in any other way ends by raising.
C12_ReturnsOnlyTerminalInfo ==
    pc = "done" =>
        \/ /\ outcome.kind = "returned"
           /\ outcome.info \in Terminal
           /\ outcome.info \notin {"NONE_SCAN_STATUS", "PENDING", "IN_PROGRESS",
                                   "NOSTATUS", "EMPTY", UNBOUND}
           /\ outcome.exc = NoExc
        \/ /\ outcome.kind = "raised"
           /\ outcome.exc # NoExc
           /\ outcome.info = UNBOUND

\* a run that returns the CANCELED info of its first poll
C12_Witness ==
    /\ pc = "done"
    /\ outcome = Returned("CANCELED")
    /\ Count("get_scan") = 1


(* ---------------------------------------------------------------------- *)
(* C14                                                                    *)
(* ---------------------------------------------------------------------- *)
\* seconds slept so far: every sleep lasts WAIT_TIME_SECS_SUCCESSIVE_SCAN_INFO_CHECK
TotalSleepSecs == Count("sleep") * WAIT_TIME_SECS_SUCCESSIVE_SCAN_INFO_CHECK

\* sleeps of the main wait (before cancel_scan) and of the cleanup wait
MainSleeps ==
    Cardinality({i \in 1..(CancelAt - 1) : calls[i].op = "sleep"})

CleanupSleeps ==
    Cardinality({i \in (CancelAt + 1)..Len(calls) : calls[i].op = "sleep"})

\* C14 as stated: one run sleeps at most RETRY_COUNT times, that is at most
\* RETRY_COUNT * WAIT_INTERVAL = 60 seconds, on the failure path too.
C14_SleepsAtMostRetryCount ==
    /\ Count("sleep") <= RETRY_COUNT_FOR_SCANNING
    /\ TotalSleepSecs <= 60

\* C14 amended: each wait sleeps at most RETRY_COUNT times, so a run that
\* returns has slept less than RETRY_COUNT * WAIT_INTERVAL seconds, but a
\* run whose handler starts the cleanup wait can sleep RETRY_COUNT times
\* more: the total is at most 2 * RETRY_COUNT * WAIT_INTERVAL = 120 seconds.
C14_SleepsAtMostRetryCountPerWait ==
    /\ MainSleeps <= RETRY_COUNT_FOR_SCANNING
    /\ CleanupSleeps <= RETRY_COUNT_FOR_SCANNING
    /\ TotalSleepSecs <= 120
    /\ outcome.kind = "returned" => Count("sleep") <= RETRY_COUNT_FOR_SCANNING - 1

\* both waits ran out: 60 sleeps, 120 seconds
C14_Witness ==
    /\ pc = "done"
    /\ MainSleeps = RETRY_COUNT_FOR_SCANNING
    /\ CleanupSleeps = RETRY_COUNT_FOR_SCANNING
    /\ TotalSleepSecs = 120


(* ---------------------------------------------------------------------- *)
(* C16                                                                    *)
(* ---------------------------------------------------------------------- *)
\* file targets that are not an existing regular file
Malformed == {"missing", "dir", "notpath"}

\* C16 as stated: given a target that is empty or does not exist, scan()
\* raises without having issued register_scan or any other request.
C16_NoRequestOnMalformedTarget ==
    (pc = "done" /\ file_path \in Malformed) =>
        /\ outcome.kind = "raised"
        /\ Len(calls) = 0

(* ---------------------------------------------------------------------- *)
(* C20                                                                    *)
(* ---------------------------------------------------------------------- *)
\* the request at position i of the log is op and it returned
OkAt(i, op) ==
    /\ Len(calls) >= i
    /\ calls[i].op = op
    /\ calls[i].raised = "None"

\* C20: the requests of a file scan go out in the order register,
\* create_scan_object, upload PUT, trigger, get_scan; the PUT is sent only
\* after create_scan_object succeeded, trigger only after the PUT
\* succeeded, and a get_scan of the main wait only after trigger succeeded.
C20_RequestsInFixedOrder ==
    /\ Len(calls) > 0 => calls[1].op = "register"
    /\ LET c == CancelAt
       IN  \A i \in 1..Len(calls) :
               /\ calls[i].op = "create_scan_object" =>
                      i = 2 /\ OkAt(1, "register")
               /\ calls[i].op = "upload_put" =>
                      i = 3 /\ OkAt(2, "create_scan_object")
               /\ calls[i].op = "trigger" =>
                      i = 4 /\ OkAt(3, "upload_put")
               /\ (calls[i].op = "get_scan" /\ i < c) =>
                      i > 4 /\ OkAt(4, "trigger")

\* a run that went through all five requests and returned
C20_Witness ==
    /\ pc = "done"
    /\ outcome.kind = "returned"
    /\ \A i \in 1..4 :
           calls[i].op = <<"register", "create_scan_object",
                           "upload_put", "trigger">>[i]
    /\ calls[5].op = "get_scan"


(* ---------------------------------------------------------------------- *)
(* C19                                                                    *)
(* ---------------------------------------------------------------------- *)
\* a str of exactly 64 characters
ValidKey(k) == k.type = "str" /\ k.n = 64

\* C19 as stated: an auth object of either class exists only with a key
\* that is a str of exactly 64 characters, no header ever carries another
\* key, and a constructor raises only for such another key.
C19_NoAuthObjectWithInvalidKey ==
    /\ runtime_auth # NoObject => ValidKey(runtime_auth.key)
    /\ management_auth # NoObject => ValidKey(management_auth.key)
    /\ \A h \in headers : ValidKey(h[2])
    /\ auth_raised = "ValueError" => ~ ValidKey(api_key)


(* ---------------------------------------------------------------------- *)
(* C17                                                                    *)
(* ---------------------------------------------------------------------- *)
\* the URLs of Urls in which the characters huggingface.co occur
WithMarker ==
    {"huggingface.co", "https://huggingface.co/org/model",
     "https://huggingface.com/x", "https://mirror.example/huggingface.co"}

\* C17: the credential payload is the empty map whenever auth is None,
\* whatever the URL; with a HuggingFace URL and a HuggingfaceRepoAuth of
\* token t it is {"huggingface": {"access_token": t}} and nothing else.
C17_CredentialPayloadShape ==
    config_out # NoPayload =>
        /\ repo.auth = NoAuth =>
               config_out = [raised |-> "None", value |-> {}]
        /\ (repo.auth # NoAuth /\ repo.url \in WithMarker) =>
               /\ config_out.raised = "None"
               /\ config_out.value =
                      {<<"huggingface", {<<"access_token", repo.auth.token>>}>>}
               /\ Cardinality(config_out.value) = 1

\* the payload of an unrecognized URL without auth was evaluated
C17_Witness ==
    /\ repo.url = "https://github.com/org/model"
    /\ repo.auth = NoAuth
    /\ config_out = [raised |-> "None", value |-> {}]

(* ---------------------------------------------------------------------- *)
(* C18                                                                    *)
(* ---------------------------------------------------------------------- *)
\* the type resolved for a URL does not depend on auth
SameForEveryAuth ==
    \A a \in Auths : url_type([url |-> repo.url, auth |-> a]) = url_type_out

\* C18 as stated: resolution depends on the URL alone, a URL with the
\* marker resolves to HUGGING_FACE and a URL without it fails with
\* UnknownRepositoryError.
C18_ResolutionByMarker ==
    url_type_out # NotEvaluated =>
        /\ SameForEveryAuth
        /\ repo.url \in WithMarker =>
               url_type_out = [raised |-> "None", value |-> "HUGGING_FACE"]
        /\ repo.url \notin WithMarker =>
               url_type_out.raised = "UnknownRepositoryError"

\* C18 amended: the same, but a URL without the marker fails with
\* ValueError, the only exception url_type raises.
C18_ResolutionByMarker_ValueError ==
    url_type_out # NotEvaluated =>
        /\ SameForEveryAuth
        /\ repo.url \in WithMarker =>
               url_type_out = [raised |-> "None", value |-> "HUGGING_FACE"]
        /\ repo.url \notin WithMarker =>
               url_type_out = [raised |-> "ValueError", value |-> "-"]

\* a URL with the marker in its path and one with the host in another
\* case were resolved
C18_Witness ==
    \/ /\ repo.url = "https://mirror.example/huggingface.co"
       /\ url_type_out.value = "HUGGING_FACE"
    \/ /\ repo.url = "https://HuggingFace.co/org"
       /\ url_type_out.raised = "ValueError"


(* ---------------------------------------------------------------------- *)
(* C15                                                                    *)
(* ---------------------------------------------------------------------- *)
ValidateError == NewExc("ApiError", "validate_scan_url")

\* the handler cancelled, its wait ended on an info of the set seen, and it
\* deleted, all on scan id
CancelWaitDeleteOn(id, seen) ==
    /\ CancelThenDelete(id)
    /\ Count("cancel") = 1 /\ Count("delete") = 1
    /\ status = "ScanStatus.CANCELED" /\ info \in seen
    /\ \E g \in Positions("get_scan") : \E c \in Positions("cancel") :
           \E d \in Positions("delete") : c < g /\ g < d /\ calls[g].id = id

\* the same with CANCELED as the status of that info
CancelWaitDelete(id) == CancelWaitDeleteOn(id, {"CANCELED"})

\* the infos on which the cleanup wait returns: the status CANCELED and the
\* empty status, which is a substring of it
EndsCleanupWait == {"CANCELED", "BLANK"}

OwnIdOnly(f) ==
    \A i \in 1..Len(f.calls) : f.calls[i].id \in {NoId, f.scan_id}

\* no cancel_scan and no delete_scan of frame f names the scan of frame g
NoCleanupOf(f, g) ==
    \A i \in 1..Len(f.calls) :
        f.calls[i].op \in {"cancel", "delete"} =>
            g.scan_id = UNBOUND \/ f.calls[i].id # g.scan_id

\* a step of the running invocation leaves the other frame as it is, and
\* a switch hands both frames over unchanged
FramesKept ==
    /\ cur' = cur => parked' = parked
    /\ cur' # cur => parked' = Frame /\ Frame' = parked

\* C13: of two interleaved scan() runs each sends only requests on the
\* scan_id its own register_scan returned, neither cancels nor deletes the
\* scan of the other, and no step of one changes a local of the other, so
\* each run ends as it would alone.
C13_RunsShareNoState ==
    /\ [](/\ OwnIdOnly(Frame) /\ OwnIdOnly(parked)
          /\ NoCleanupOf(Frame, parked) /\ NoCleanupOf(parked, Frame))
    /\ [][FramesKept]_vars

\* invocation 2 ran in between the steps of invocation 1 and returned
\* COMPLETED; invocation 1 failed at trigger, cancelled and deleted its own
\* scan and ended last
C13_Witness ==
    /\ cur = 1
    /\ pc = "done" /\ parked.pc = "done"
    /\ scan_id # parked.scan_id
    /\ parked.outcome = Returned("COMPLETED")
    /\ outcome = Raised(TriggerError)
    /\ CancelThenDelete(scan_id)

(* ---------------------------------------------------------------------- *)
(* C21                                                                    *)
(* ---------------------------------------------------------------------- *)
\* this step is a get_scan of the cleanup wait that returned an info
CleanupPollReturned ==
    /\ status = "ScanStatus.CANCELED"
    /\ pc = "poll"
    /\ Len(calls') = Len(calls) + 1
    /\ calls'[Len(calls')].op = "get_scan"
    /\ calls'[Len(calls')].raised = "None"

\* C21: the cleanup wait ends with a return only on CANCELED. A get_scan of
\* the cleanup wait that reports another status of the enumeration
\* (COMPLETED and FAILED included) is followed by the sleep and the next
\* attempt, as long as attempts are left; the handler never reaches
\* delete_scan with another status of the enumeration as the last info.
C21_CleanupWaitsForCanceledOnly ==
    /\ [][CleanupPollReturned =>
            /\ info' = "CANCELED" => pc' = "delete"
            /\ info' \in ScanStatus \ {"CANCELED"} =>
                   /\ pc' = "sleep"
                   /\ outcome' = outcome
                   /\ attempt' = attempt]_vars
    /\ [](/\ pc \in {"delete", "reraise"} /\ status = "ScanStatus.CANCELED" =>
                 info \notin ScanStatus \ {"CANCELED"}
          /\ (status = "ScanStatus.CANCELED" /\ pc = "sleep") =>
                 attempt < RETRY_COUNT_FOR_SCANNING)

\* the cleanup wait saw COMPLETED and went on to sleep
C21_Witness ==
    /\ status = "ScanStatus.CANCELED"
    /\ pc = "sleep"
    /\ info = "COMPLETED"
    /\ attempt > 0

(* ---------------------------------------------------------------------- *)
(* C22                                                                    *)
(* ---------------------------------------------------------------------- *)
\* the delete_scan at position d of the log follows a cancel_scan that
\* returned and, directly, a get_scan that returned, all on one scan id
DeleteConfirmed(d) ==
    /\ d > 2
    /\ calls[d].id = scan_id
    /\ CancelAt < d - 1
    /\ calls[CancelAt].raised = "None" /\ calls[CancelAt].id = scan_id
    /\ calls[d - 1].op = "get_scan"
    /\ calls[d - 1].raised = "None" /\ calls[d - 1].id = scan_id

\* C22: delete_scan(scan_id) is issued only after cancel_scan(scan_id)
\* returned and a later get_scan(scan_id) of the cleanup wait reported
\* CANCELED; when cancel_scan raised or the cleanup wait timed out there is
\* no delete_scan.
C22_DeleteOnlyAfterConfirmedCancel ==
    /\ \A d \in 1..Len(calls) :
           calls[d].op = "delete" =>
               /\ DeleteConfirmed(d)
               /\ info = "CANCELED"
               /\ status = "ScanStatus.CANCELED"
    /\ Failed("cancel") => Count("delete") = 0
    /\ (outcome.kind = "raised" /\ outcome.exc.origin = "cleanup_wait") =>
           Count("delete") = 0

(* ---------------------------------------------------------------------- *)
(* C23                                                                    *)
(* ---------------------------------------------------------------------- *)
\* get_scan calls of the main wait and of the cleanup wait
MainPolls ==
    Cardinality({i \in 1..(CancelAt - 1) : calls[i].op = "get_scan"})

CleanupPolls ==
    Cardinality({i \in (CancelAt + 1)..Len(calls) : calls[i].op = "get_scan"})

\* C23: scan() always ends, by returning or by raising, whatever the
\* requests return or raise; the main wait and the cleanup wait make at
\* most RETRY_COUNT get_scan calls each, so a run makes at most
\* 2 * RETRY_COUNT of them.
C23_ScanTerminates ==
    /\ <>(pc = "done" /\ outcome.kind \in {"returned", "raised"})
    /\ [](/\ MainPolls <= RETRY_COUNT_FOR_SCANNING
          /\ CleanupPolls <= RETRY_COUNT_FOR_SCANNING
          /\ Count("get_scan") <= 2 * RETRY_COUNT_FOR_SCANNING)

\* a run that ended after both waits had used all their attempts
C23_Witness ==
    /\ pc = "done"
    /\ MainPolls = RETRY_COUNT_FOR_SCANNING
    /\ CleanupPolls = RETRY_COUNT_FOR_SCANNING
    /\ outcome.kind = "raised"

(* ---------------------------------------------------------------------- *)
(* C24                                                                    *)
(* ---------------------------------------------------------------------- *)
\* the main wait, the cleanup wait is still in its loop
MainWaitRunning == status = "END_SCAN_STATUS" /\ pc \in {"poll", "sleep"}

CleanupWaitRunning == status = "ScanStatus.CANCELED" /\ pc \in {"poll", "sleep"}

\* the wait made a get_scan call and has left its loop
MainWaitEnded == MainPolls >= 1 /\ ~ MainWaitRunning

CleanupWaitEnded == CleanupPolls >= 1 /\ ~ CleanupWaitRunning

\* the wait left its loop by the timeout of line 469
MainWaitTimedOut == e.origin = "main_wait"

CleanupWaitTimedOut == outcome.exc.origin = "cleanup_wait"

\* C24 as stated: a wait that made n get_scan calls has slept n - 1 times,
\* also when it timed out.
C24_SleepsOnlyBetweenPolls ==
    /\ MainWaitEnded => MainSleeps = MainPolls - 1
    /\ CleanupWaitEnded => CleanupSleeps = CleanupPolls - 1

\* C24 amended: no sleep precedes the first attempt and none follows an
\* attempt that returned an awaited status or raised, so a wait that ends
\* that way after n get_scan calls has slept n - 1 times; a wait that times
\* out has slept after its last attempt too, RETRY_COUNT times for
\* RETRY_COUNT calls.
C24_SleepsAfterEveryMiss ==
    /\ MainWaitRunning =>
           MainSleeps = attempt /\ MainPolls = attempt + (IF pc = "sleep" THEN 1 ELSE 0)
    /\ CleanupWaitRunning =>
           CleanupSleeps = attempt
               /\ CleanupPolls = attempt + (IF pc = "sleep" THEN 1 ELSE 0)
    /\ MainWaitEnded =>
           IF MainWaitTimedOut
           THEN MainSleeps = RETRY_COUNT_FOR_SCANNING
                    /\ MainPolls = RETRY_COUNT_FOR_SCANNING
           ELSE MainSleeps = MainPolls - 1
    /\ CleanupWaitEnded =>
           IF CleanupWaitTimedOut
           THEN CleanupSleeps = RETRY_COUNT_FOR_SCANNING
                    /\ CleanupPolls = RETRY_COUNT_FOR_SCANNING
           ELSE CleanupSleeps = CleanupPolls - 1

\* the main wait timed out and the handler has begun
C24_Witness ==
    /\ pc = "cancel"
    /\ MainWaitTimedOut
    /\ MainPolls = RETRY_COUNT_FOR_SCANNING
    /\ MainSleeps = RETRY_COUNT_FOR_SCANNING

(* ---------------------------------------------------------------------- *)
(* C25                                                                    *)
(* ---------------------------------------------------------------------- *)
GetScanError == NewExc("ApiError", "get_scan")

\* this step is a get_scan of the main wait that raised
MainPollRaised ==
    /\ status = "END_SCAN_STATUS"
    /\ pc = "poll"
    /\ Len(calls') = Len(calls) + 1
    /\ calls'[Len(calls')].op = "get_scan"
    /\ calls'[Len(calls')].raised # "None"

\* a get_scan of the main wait raised
MainPollFailed ==
    \E i \in 1..Len(calls) :
        i < CancelAt /\ calls[i].op = "get_scan" /\ calls[i].raised # "None"

\* C25: a get_scan that raises in the main wait ends the loop at once: the
\* error enters the handler, the attempt is not counted and no sleep and
\* no further get_scan of the main wait follows; what follows is the
\* handler's cancel_scan (nothing, when scan_id is empty), and when the
\* cleanup goes through that get_scan error is what scan() raises.
C25_MainPollErrorEndsTheWait ==
    /\ [][MainPollRaised =>
            /\ pc' = "except"
            /\ e' = GetScanError
            /\ attempt' = attempt
            /\ outcome' = outcome]_vars
    /\ [](/\ \A i \in 1..Len(calls) :
                 (/\ calls[i].op = "get_scan"
                  /\ calls[i].raised # "None"
                  /\ i < CancelAt) =>
                     /\ i = Len(calls) \/ calls[i + 1].op = "cancel"
                     /\ Truthy(scan_id) \/ i = Len(calls)
          /\ (/\ pc = "done"
              /\ MainPollFailed
              /\ ~ Truthy(scan_id) \/ (Ok("cancel") /\ Ok("delete"))) =>
                 outcome = Raised(GetScanError))

\* the third get_scan of the main wait raised, the cleanup went through and
\* scan() raised that error
C25_Witness ==
    /\ pc = "done"
    /\ MainPolls = 3 /\ MainSleeps = 2
    /\ MainPollFailed
    /\ Ok("cancel") /\ Ok("delete")
    /\ outcome = Raised(GetScanError)

(* ---------------------------------------------------------------------- *)
(* C26                                                                    *)
(* ---------------------------------------------------------------------- *)
\* responses of get_scan that carry no status: an empty info, and an info
\* whose scan_status_info or status is missing (the status read is None)
NoStatus == {"EMPTY", "NOSTATUS"}

\* this step is a get_scan, of either wait, that returned without a status
PollReturnedNoStatus ==
    /\ pc = "poll"
    /\ Len(calls') = Len(calls) + 1
    /\ calls'[Len(calls')].op = "get_scan"
    /\ calls'[Len(calls')].raised = "None"
    /\ info' \in NoStatus

\* C26 as stated: in the main wait and in the cleanup wait alike, a
\* get_scan response without a status is an attempt that did not match:
\* the sleep follows, and the step neither returns nor raises.
C26_NoStatusIsAMissInBothWaits ==
    [][PollReturnedNoStatus =>
           /\ pc' = "sleep"
           /\ e' = e
           /\ outcome' = outcome
           /\ attempt' = attempt]_vars

(* ---------------------------------------------------------------------- *)
(* C27                                                                    *)
(* ---------------------------------------------------------------------- *)
\* the requests scan() passes auth=self.auth to
AuthenticatedOps ==
    {"register", "create_scan_object", "trigger", "get_scan", "cancel", "delete"}

\* C27: of the requests of a scan() run, the PUT of the file bytes to the
\* pre-signed URL is the only one issued without the API-key auth; register,
\* create_scan_object, trigger, get_scan, cancel_scan and delete_scan are
\* all issued with it.
C27_OnlyTheUploadPutIsUnauthenticated ==
    \A i \in 1..Len(calls) :
        calls[i].op # "sleep" =>
            /\ calls[i].op \in AuthenticatedOps \cup {"upload_put"}
            /\ calls[i].op = "upload_put" <=> ~ calls[i].auth
            /\ calls[i].op \in AuthenticatedOps <=> calls[i].auth

\* a finished run that issued every kind of request, the PUT included
C27_Witness ==
    /\ pc = "done"
    /\ Count("upload_put") = 1
    /\ \A op \in AuthenticatedOps : Count(op) >= 1

(* ---------------------------------------------------------------------- *)
(* C28                                                                    *)
(* ---------------------------------------------------------------------- *)
\* the same RepoConfig constructed without auth
WithoutAuth(r) == [url |-> r.url, auth |-> NoAuth]

\* C28: for a URL of no known type, the credential payload of a RepoConfig
\* with auth is not a map: evaluating it raises the error url_type raises
\* for that URL; the payload of the same URL without auth is the empty map
\* and raises nothing.
C28_PayloadOfUnknownUrl ==
    (config_out # NoPayload /\ repo.url \notin WithMarker) =>
        /\ repo.auth # NoAuth =>
               /\ config_out.raised # "None"
               /\ config_out.raised = url_type(repo).raised
               /\ url_type_out # NotEvaluated =>
                      config_out.raised = url_type_out.raised
        /\ repo.auth = NoAuth =>
               config_out = [raised |-> "None", value |-> {}]
        /\ config(WithoutAuth(repo)) = [raised |-> "None", value |-> {}]

\* the type and then the payload of an unrecognized URL with a token were
\* evaluated, and both raised
C28_Witness ==
    /\ repo.url = "https://github.com/org/model"
    /\ repo.auth # NoAuth
    /\ url_type_out.raised = "ValueError"
    /\ config_out.raised = "ValueError"

====
